---- MODULE Spec2Model ----
(***************************************************************************)
(* The bounded streaming ingestion loop of stack_v2_dedup_preprocess.      *)
(*                                                                         *)
(* Two programs are modelled, selected by `variant`:                       *)
(*   "extract" : extract.py  main  = fetch_samples ; extract_code_to_files *)
(*               (python.py's fetch_python_samples is the same loop with   *)
(*               the bound fixed and no extraction step)                   *)
(*   "aise"    : fetch_aise_stack_v2.py  fetch_for_language                *)
(*                                                                         *)
(* A Python value is a record [kind, v]; v is always a sequence of tokens  *)
(* (short strings), so that "/" and " " are characters str.replace can     *)
(* act on and isoformat() can build its result.  A dict is a TLA+ record   *)
(* whose DOMAIN is the set of keys present (`k in row` is k \in DOMAIN).   *)
(*                                                                         *)
(* Operating-system failures (disk full, name too long, permissions) are   *)
(* outside the model: every open()/write() the code performs succeeds.     *)
(***************************************************************************)
EXTENDS Integers, Sequences, FiniteSets, TLC

VARIABLES
    variant,    \* which script runs
    language,   \* language_key / language argument
    N,          \* num_samples_to_save / count
    source,     \* ds: the rows the stream yields, in order
    pos,        \* how many rows the iterator has yielded so far
    row,        \* the loop variable `row`
    saved,      \* saved_count / saved
    pc,         \* position in the ingestion loop
    written,    \* the lines passed to f_out.write so far, in order
    origin,     \* for each written line, the index in ds of its row
    durable,    \* what of the log is on disk: complete lines + a partial one?
    files,      \* the output directory: file name -> content
    xpc,        \* position in extract_code_to_files
    lineNo,     \* lines of the log extract_code_to_files has read
    count       \* extract_code_to_files' count

vars == <<variant, language, N, source, pos, row, saved, pc, written, origin,
          durable, files, xpc, lineNo, count>>

\* ------------------------------------------------------------------ bounds
MaxRows == 3
MaxN == 2

\* ------------------------------------------------------------------ values
Str(s) == [kind |-> "str", v |-> s]

PyNone == [kind |-> "none", v |-> <<>>]

\* datetime.datetime(Y, M, D, h, m, s): v = <<Y, M, D, h, m, s>>
DateTime(t) == [kind |-> "datetime", v |-> t]

\* datetime.date(Y, M, D): a native value that is not a datetime.datetime
Date(t) == [kind |-> "date", v |-> t]

PyDict == [kind |-> "dict", v |-> <<>>]

\* bool(x)
Truthy(x) ==
    CASE x.kind = "none" -> FALSE
      [] x.kind = "str" -> x.v # <<>>
      [] OTHER -> TRUE

\* d[k] = x on a dict
SetItem(d, k, x) == [j \in DOMAIN d \cup {k} |-> IF j = k THEN x ELSE d[j]]

\* d.get(k)
Get(d, k) == IF k \in DOMAIN d THEN d[k] ELSE PyNone

\* d.get(k, default)
GetOr(d, k, default) == IF k \in DOMAIN d THEN d[k] ELSE default

\* str(datetime) in place of isoformat(): a blank where ISO-8601 has the "T"
IsoFormatBlank(x) ==
    Str(<<x.v[1], "-", x.v[2], "-", x.v[3], " ", x.v[4], ":", x.v[5], ":", x.v[6]>>)

\* datetime.isoformat(): "YYYY-MM-DDTHH:MM:SS"
IsoFormat(x) ==
    Str(<<x.v[1], "-", x.v[2], "-", x.v[3], "T", x.v[4], ":", x.v[5], ":", x.v[6]>>)

\* ------------------------------------------------------------------ json
\* json.dumps raises TypeError on a value that is no JSON primitive
JsonSerializable(d) == \A k \in DOMAIN d : d[k].kind \in {"str", "none"}

ToJson(x) == IF x.kind = "none" THEN [kind |-> "null", v |-> <<>>]
             ELSE [kind |-> "jstring", v |-> x.v]

FromJson(j) == IF j.kind = "null" THEN PyNone ELSE Str(j.v)

\* json.dumps(d) + "\n": one line of the log
JsonDumps(d) == [k \in DOMAIN d |-> ToJson(d[k])]

\* json.loads(line)
JsonLoads(line) == [k \in DOMAIN line |-> FromJson(line[k])]

\* ------------------------------------------------------------------ tables
EXTENSION_MAP == [python |-> ".py", javascript |-> ".js", typescript |-> ".ts",
                  java |-> ".java", c |-> ".c", cpp |-> ".cpp", csharp |-> ".cs",
                  go |-> ".go", ruby |-> ".rb", rust |-> ".rs", scala |-> ".scala"]

timestamp_keys == <<"visit_date", "revision_date", "committer_date",
                    "gha_event_created_at", "gha_created_at">>

\* ------------------------------------------------------------------ resolver
\* The object store s3://softwareheritage/content/<blob_id>: what each key holds.
BlobStore == [b1 |-> <<"print(1)">>, b2 |-> <<>>, b4 |-> <<"x", "=", "2">>]

KnownEncodings == {<<"utf-8">>}

\* download_contents(blob_id, src_encoding): raised is TRUE when the object is
\* missing or bytes.decode fails
download_contents(blob_id, src_encoding) ==
    IF /\ blob_id.kind = "str"
       /\ Len(blob_id.v) = 1
       /\ blob_id.v[1] \in DOMAIN BlobStore
       /\ src_encoding.kind = "str"
       /\ src_encoding.v \in KnownEncodings
    THEN [raised |-> FALSE, content |-> Str(BlobStore[blob_id.v[1]])]
    ELSE [raised |-> TRUE, content |-> PyNone]

\* ------------------------------------------------------------------ inputs
t1 == <<"2024", "01", "02", "03", "04", "05">>

Meta == [repo_name |-> Str(<<"r">>), path |-> Str(<<"p">>),
         src_encoding |-> Str(<<"utf-8">>)]

Without(d, k) == [j \in DOMAIN d \ {k} |-> d[j]]

\* Rows of bigcode/the-stack-v2-dedup as the stream can yield them.
DedupRows ==
    { \* a resolvable blob, a native datetime and a null timestamp
      Meta @@ [blob_id |-> Str(<<"b1">>), visit_date |-> DateTime(t1),
               gha_created_at |-> PyNone],
      \* the same blob again, a timestamp that is already a string
      Meta @@ [blob_id |-> Str(<<"b1">>),
               committer_date |-> Str(<<"2023", "-", "12", "-", "31", "T", "23", ":",
                                        "59", ":", "59">>)],
      \* a blob whose content is empty
      Meta @@ [blob_id |-> Str(<<"b2">>)],
      \* a blob the store does not hold
      Meta @@ [blob_id |-> Str(<<"b3">>)],
      \* an encoding bytes.decode does not know
      [Meta EXCEPT !.src_encoding = Str(<<"x-none">>)] @@ [blob_id |-> Str(<<"b1">>)],
      \* rows lacking one of the fields the loop reads
      Meta,
      Without(Meta, "repo_name") @@ [blob_id |-> Str(<<"b4">>)],
      Without(Meta, "path") @@ [blob_id |-> Str(<<"b4">>)],
      Without(Meta, "src_encoding") @@ [blob_id |-> Str(<<"b4">>)],
      \* a timestamp key holding a native value that is no datetime.datetime
      Meta @@ [blob_id |-> Str(<<"b4">>), revision_date |-> Date(<<"2024", "01", "02">>)],
      \* another resolvable blob
      Meta @@ [blob_id |-> Str(<<"b4">>), gha_event_created_at |-> DateTime(t1)] }

\* Rows of AISE-TUDelft/the-stack-v2 as the stream can yield them.
AiseRows ==
    { [content |-> Str(<<"x", "1">>), blob_id |-> Str(<<"b1">>), id |-> Str(<<"i1">>),
       path |-> Str(<<"a", "/", "b">>), repo_name |-> Str(<<"r">>)],
      \* content under a fallback key, named by its path
      [text |-> Str(<<"y">>), path |-> Str(<<"a", "/", "b">>)],
      \* another file, whose path is a_b
      [content |-> Str(<<"z">>), path |-> Str(<<"a", "_", "b">>), repo |-> Str(<<"r2">>)],
      \* content nested under row["data"], no identifier at all
      [data |-> PyDict, data_text |-> Str(<<"w">>)],
      \* no content anywhere
      [path |-> Str(<<"c">>)],
      \* an empty content, a later fallback key, an id that looks like a counter
      [content |-> Str(<<>>), code |-> Str(<<"q">>), id |-> Str(<<"sample", "_", "1">>)],
      \* a null id, a sha with a blank in it
      [content |-> Str(<<"v">>), sha |-> Str(<<"s", " ", "1">>), id |-> PyNone] }

Languages == {"python", "rust"}

SeqsUpTo(S, n) == UNION {[1..k -> S] : k \in 0..n}

NoFiles == [n \in {} |-> PyNone]

Init ==
    /\ variant \in {"extract", "aise"}
    /\ language \in Languages
    /\ N \in 0..MaxN
    /\ source \in SeqsUpTo(IF variant = "extract" THEN DedupRows ELSE AiseRows, MaxRows)
    /\ pos = 0
    /\ row = [none |-> PyNone]
    /\ saved = 0
    /\ pc = "for"
    /\ written = <<>>
    /\ origin = <<>>
    /\ durable = [lines |-> 0, partial |-> FALSE]
    /\ files = NoFiles
    /\ xpc = "idle"
    /\ lineNo = 0
    /\ count = 0

\* ------------------------------------------------------------------ the log file
\* f_out is opened with the default (block) buffering and never flushed by the
\* loop: the library moves a prefix of the written characters to disk whenever
\* its buffer fills, wherever that falls in a line.
Later(d, e) ==
    \/ e.lines > d.lines
    \/ e.lines = d.lines /\ e.partial /\ ~d.partial

BufferFlush ==
    /\ pc \in {"for", "check", "try"}
    /\ \E e \in [lines : 0..Len(written), partial : BOOLEAN] :
          /\ e.partial => e.lines < Len(written)
          /\ Later(durable, e)
          /\ durable' = e
    /\ UNCHANGED <<variant, language, N, source, pos, row, saved, pc, written,
                   origin, files, xpc, lineNo, count>>

\* the line written twice
WriteLineTwice(w, line) == Append(Append(w, line), line)

\* f_out.write(line)
WriteLine(w, line) == Append(w, line)

\* leaving the with block closes f_out, which flushes it
Closed(w) == [lines |-> Len(w), partial |-> FALSE]

\* ------------------------------------------------------------------ the loop
\* for row in ds:
NextRow ==
    /\ pc = "for"
    /\ IF pos < Len(source)
       THEN /\ pos' = pos + 1
            /\ row' = source[pos + 1]
            /\ pc' = "check"
            /\ UNCHANGED durable
       ELSE /\ pc' = "exhausted"
            /\ durable' = Closed(written)
            /\ UNCHANGED <<pos, row>>
    /\ UNCHANGED <<variant, language, N, source, saved, written, origin, files,
                   xpc, lineNo, count>>

\* the bound tested with > in place of >=
CheckBoundOffByOne ==
    /\ pc = "check"
    /\ IF saved > N
       THEN pc' = "done" /\ durable' = Closed(written)
       ELSE pc' = "try" /\ UNCHANGED durable
    /\ UNCHANGED <<variant, language, N, source, pos, row, saved, written, origin,
                   files, xpc, lineNo, count>>

\* continue in place of break: the loop goes on pulling rows past the bound
CheckBoundContinue ==
    /\ pc = "check"
    /\ IF saved >= N
       THEN pc' = "for" /\ UNCHANGED durable
       ELSE pc' = "try" /\ UNCHANGED durable
    /\ UNCHANGED <<variant, language, N, source, pos, row, saved, written, origin,
                   files, xpc, lineNo, count>>

\* if saved_count >= num_samples_to_save: break
CheckBound ==
    /\ pc = "check"
    /\ IF saved >= N
       THEN pc' = "done" /\ durable' = Closed(written)
       ELSE pc' = "try" /\ UNCHANGED durable
    /\ UNCHANGED <<variant, language, N, source, pos, row, saved, written, origin,
                   files, xpc, lineNo, count>>

\* the timestamp fix: for key in timestamp_keys: ...
Normalize(d) ==
    [k \in DOMAIN d |->
        IF (\E i \in DOMAIN timestamp_keys : timestamp_keys[i] = k)
           /\ d[k].kind = "datetime"
        THEN IsoFormat(d[k]) ELSE d[k]]

\* the try block with a resolver failure swallowed: the row goes on without content
TryBodyUnchecked(r) ==
    IF ~({"repo_name", "path"} \subseteq DOMAIN r)
    THEN [raised |-> TRUE, called |-> FALSE, row |-> r]
    ELSE IF ~({"blob_id", "src_encoding"} \subseteq DOMAIN r)
    THEN [raised |-> TRUE, called |-> FALSE, row |-> r]
    ELSE LET dl == download_contents(r.blob_id, r.src_encoding)
             r2 == Normalize(SetItem(r, "content", dl.content))
         IN [raised |-> ~JsonSerializable(r2), called |-> TRUE, row |-> r2]

\* The body of the try block up to json.dumps: whether it raised, whether the
\* resolver was called, and the row as it left it.
TryBody(r) ==
    IF ~({"repo_name", "path"} \subseteq DOMAIN r)
    THEN [raised |-> TRUE, called |-> FALSE, row |-> r]
    ELSE IF ~({"blob_id", "src_encoding"} \subseteq DOMAIN r)
    THEN [raised |-> TRUE, called |-> FALSE, row |-> r]
    ELSE LET dl == download_contents(r.blob_id, r.src_encoding) IN
         IF dl.raised
         THEN [raised |-> TRUE, called |-> TRUE, row |-> r]
         ELSE LET r2 == Normalize(SetItem(r, "content", dl.content)) IN
              [raised |-> ~JsonSerializable(r2), called |-> TRUE, row |-> r2]

\* except Exception as e: print(f"... {row['blob_id']} ..."): the handler itself
\* raises KeyError when the row has no blob_id
HandlerRaises(r) == "blob_id" \notin DOMAIN r

\* try: ... f_out.write(json.dumps(row) + "\n"); saved_count += 1
\* except Exception: ...; continue
ProcessRow ==
    /\ variant = "extract"
    /\ pc = "try"
    /\ LET out == TryBody(row) IN
       /\ row' = out.row
       /\ IF ~out.raised
          THEN /\ written' = WriteLine(written, JsonDumps(out.row))
               /\ origin' = Append(origin, pos)
               /\ saved' = saved + 1
               /\ pc' = "for"
               /\ UNCHANGED durable
          ELSE IF ~HandlerRaises(out.row)
          THEN /\ pc' = "for"
               /\ UNCHANGED <<written, origin, saved, durable>>
          ELSE /\ pc' = "aborted"
               /\ durable' = Closed(written)
               /\ UNCHANGED <<written, origin, saved>>
    /\ UNCHANGED <<variant, language, N, source, pos, files, xpc, lineNo, count>>

\* ------------------------------------------------------------------ extraction
\* main: extract_code_to_files runs once fetch_samples has returned
ExtractOpen ==
    /\ variant = "extract"
    /\ pc \in {"done", "exhausted"}
    /\ xpc = "idle"
    /\ xpc' = "lines"
    /\ lineNo' = 0
    /\ count' = 0
    /\ UNCHANGED <<variant, language, N, source, pos, row, saved, pc, written,
                   origin, durable, files>>

WriteFile(fs, name, content) ==
    [n \in DOMAIN fs \cup {name} |-> IF n = name THEN content ELSE fs[n]]

\* the extension fixed to .py whatever the language
FileNamePy(blob_id, lang) == blob_id.v \o <<".py">>

\* filename = f"{blob_id}{file_ext}"
FileName(blob_id, lang) == blob_id.v \o <<EXTENSION_MAP[lang]>>

\* for line in f_in: one line of the log
ExtractLine ==
    /\ xpc = "lines"
    /\ lineNo < durable.lines
    /\ lineNo' = lineNo + 1
    /\ LET data == JsonLoads(written[lineNo + 1])
           content == Get(data, "content")
           blob_id == Get(data, "blob_id")
       IN IF ~Truthy(content) \/ ~Truthy(blob_id)
          THEN UNCHANGED <<files, count>>
          ELSE /\ files' = WriteFile(files, FileName(blob_id, language), content)
               /\ count' = count + 1
    /\ UNCHANGED <<variant, language, N, source, pos, row, saved, pc, written,
                   origin, durable, xpc>>

ExtractEnd ==
    /\ xpc = "lines"
    /\ lineNo = durable.lines
    /\ xpc' = "finished"
    /\ UNCHANGED <<variant, language, N, source, pos, row, saved, pc, written,
                   origin, durable, files, lineNo, count>>

\* ------------------------------------------------------------------ split variant
EXT_MAP == [python |-> ".py", javascript |-> ".js", typescript |-> ".ts",
            java |-> ".java", c |-> ".c", cpp |-> ".cpp", csharp |-> ".cs",
            go |-> ".go", ruby |-> ".rb", rust |-> ".rs", scala |-> ".scala"]

ContentKeys == <<"content", "text", "code", "source", "document">>

\* the same keys inside row["data"]
DataKeys == <<"data_content", "data_text", "data_code", "data_source", "data_document">>

StemKeys == <<"blob_id", "sha", "hash", "path", "id">>

Least(S) == CHOOSE i \in S : \A j \in S : i <= j

\* choose_content(row): the first key holding a non-empty str, else None
choose_content(d, keys) ==
    LET hits == {i \in DOMAIN keys :
                    /\ keys[i] \in DOMAIN d
                    /\ d[keys[i]].kind = "str"
                    /\ d[keys[i]].v # <<>>}
    IN IF hits = {} THEN PyNone ELSE d[keys[Least(hits)]]

\* content = choose_content(row), else choose_content(row["data"]) when a dict
RowContent(r) ==
    LET top == choose_content(r, ContentKeys) IN
    IF Truthy(top) THEN top
    ELSE IF Get(r, "data").kind = "dict" THEN choose_content(r, DataKeys)
    ELSE top

\* str(x)
PyStr(x) ==
    CASE x.kind = "str" -> x
      [] x.kind = "date" -> Str(<<x.v[1], "-", x.v[2], "-", x.v[3]>>)
      [] x.kind = "none" -> Str(<<"None">>)
      [] OTHER -> Str(<<"{}">>)

\* s.replace("/", "_").replace(" ", "_")
Replace(s) == Str([i \in DOMAIN s.v |-> IF s.v[i] \in {"/", " "} THEN "_" ELSE s.v[i]])

\* row.get("blob_id") or row.get("sha") or ... or f"sample_{saved+1}"
StemSource(r, k) ==
    LET hits == {i \in DOMAIN StemKeys : Truthy(Get(r, StemKeys[i]))}
    IN IF hits = {} THEN Str(<<"sample", "_", ToString(k + 1)>>)
       ELSE r[StemKeys[Least(hits)]]

Stem(r, k) == Replace(PyStr(StemSource(r, k)))

\* a or b
Or(a, b) == IF Truthy(a) THEN a ELSE b

\* record = {"id": ..., "path": ..., "repo_name": ..., "language": ..., "content": ...}
Record(r, stem, lang, content) ==
    [id |-> GetOr(r, "id", stem),
     path |-> Get(r, "path"),
     repo_name |-> Or(Get(r, "repo_name"), Or(Get(r, "repo"), Get(r, "repository"))),
     language |-> Str(<<lang>>),
     content |-> content]

\* code_path = out_dir / f"{stem}{ext}"
CodePath(stem, lang) == stem.v \o <<EXT_MAP[lang]>>

\* the body of the loop of fetch_for_language, after the bound check
ProcessRowAise ==
    /\ variant = "aise"
    /\ pc = "try"
    /\ LET content == RowContent(row)
           stem == Stem(row, saved)
           record == Record(row, stem, language, content)
       IN IF ~Truthy(content)
          THEN /\ pc' = "for"
               /\ UNCHANGED <<files, written, origin, saved, durable>>
          ELSE /\ files' = WriteFile(files, CodePath(stem, language), content)
               /\ IF JsonSerializable(record)
                  THEN /\ written' = WriteLine(written, JsonDumps(record))
                       /\ origin' = Append(origin, pos)
                       /\ saved' = saved + 1
                       /\ pc' = "for"
                       /\ UNCHANGED durable
                  ELSE /\ pc' = "aborted"
                       /\ durable' = Closed(written)
                       /\ UNCHANGED <<written, origin, saved>>
    /\ UNCHANGED <<variant, language, N, source, pos, row, xpc, lineNo, count>>

Next ==
    \/ NextRow
    \/ CheckBound
    \/ ProcessRow
    \/ ProcessRowAise
    \/ BufferFlush
    \/ ExtractOpen
    \/ ExtractLine
    \/ ExtractEnd

Spec == Init /\ [][Next]_vars

\* ------------------------------------------------------------------ claims
Running == pc \in {"for", "check", "try"}

Ended == pc \in {"done", "exhausted", "aborted"}

Min(a, b) == IF a <= b THEN a ELSE b

Range(f) == {f[i] : i \in DOMAIN f}

RECURSIVE IsSubseq(_, _)
IsSubseq(s, t) ==
    IF s = <<>> THEN TRUE
    ELSE IF t = <<>> THEN FALSE
    ELSE IF Head(s) = Head(t) THEN IsSubseq(Tail(s), Tail(t))
    ELSE IsSubseq(s, Tail(t))

\* the resolver was called for row r and raised
ResolverRaised(r) ==
    /\ {"repo_name", "path", "blob_id", "src_encoding"} \subseteq DOMAIN r
    /\ download_contents(r.blob_id, r.src_encoding).raised

\* rows of the source that the try block handles without any exception
NotFailed == {i \in DOMAIN source : ~TryBody(source[i]).raised}

\* C1: when a run of fetch_samples ends, the log holds min(N, number of source
\* rows that did not fail) records.
C1_LogCountIsMin ==
    (variant = "extract" /\ Ended) => Len(written) = Min(N, Cardinality(NotFailed))

\* C2: any exception raised while a row is processed is caught; the run goes on
\* with the next row and never aborts.
C2_FailureNeverPropagates ==
    [][(variant = "extract" /\ pc = "try" /\ pc' # "try" /\ TryBody(row).raised)
          => pc' = "for"]_vars

\* C3: a row whose resolver call raises leaves the log, the output directory and
\* the sample counter unchanged.
C3_SkipLeavesNoTrace ==
    [][(variant = "extract" /\ pc = "try" /\ pc' # "try" /\ ResolverRaised(row))
          => (written' = written /\ files' = files /\ saved' = saved)]_vars

C3_Witness ==
    /\ variant = "extract"
    /\ pc = "for"
    /\ pos >= 2
    /\ ResolverRaised(source[pos])
    /\ saved = 1
    /\ Len(written) = 1

\* the identifier of a log line, and of the row it came from (k records saved before)
LineId(line) ==
    IF variant = "extract" THEN Get(JsonLoads(line), "blob_id")
    ELSE Get(JsonLoads(line), "id")

RowId(r, k) ==
    IF variant = "extract" THEN Get(r, "blob_id") ELSE GetOr(r, "id", Stem(r, k))

\* C4: the identifiers in the log are, in order, those of rows the source yielded:
\* each line comes from a later row than the line before it, so nothing is
\* written twice or out of order.
C4_OrderPreserved ==
    /\ Len(origin) = Len(written)
    /\ \A i \in DOMAIN written :
          /\ origin[i] \in 1..pos
          /\ i > 1 => origin[i - 1] < origin[i]
          /\ LineId(written[i]) = RowId(source[origin[i]], i - 1)
    /\ variant = "extract" =>
          IsSubseq([i \in DOMAIN written |-> LineId(written[i])],
                   [j \in 1..pos |-> RowId(source[j], 0)])

C4_Witness ==
    /\ Len(written) = 2
    /\ origin = <<1, 3>>
    /\ LineId(written[1]) # LineId(written[2])

TimestampKeys == Range(timestamp_keys)

\* C5 as stated: every timestamp key present on a written record holds a string.
C5_TimestampsAreStrings ==
    \A i \in DOMAIN written :
        \A k \in TimestampKeys \cap DOMAIN written[i] :
            variant = "extract" => written[i][k].kind = "jstring"

\* C5, amended: every timestamp key present on a written record holds a JSON
\* primitive, never a native date-time: the ISO-8601 string YYYY-MM-DDTHH:MM:SS of
\* the datetime the source supplied, or the source's own value (a string, null)
\* when that was no datetime.
C5_TimestampsNeverNative ==
    \A i \in DOMAIN written :
        \A k \in TimestampKeys \cap DOMAIN written[i] :
            variant = "extract" =>
                LET got == written[i][k]
                    src == source[origin[i]][k]
                IN /\ got.kind \in {"jstring", "null"}
                   /\ IF src.kind = "datetime"
                      THEN /\ got.kind = "jstring"
                           /\ got.v = <<src.v[1], "-", src.v[2], "-", src.v[3], "T",
                                        src.v[4], ":", src.v[5], ":", src.v[6]>>
                      ELSE /\ got.kind = (IF src.kind = "none" THEN "null" ELSE "jstring")
                           /\ got.v = src.v

C5_Witness ==
    \E i \in DOMAIN written :
        /\ variant = "extract"
        /\ {"visit_date", "gha_created_at"} \subseteq DOMAIN written[i]
        /\ source[origin[i]]["visit_date"].kind = "datetime"
        /\ written[i]["gha_created_at"].kind = "null"

\* the log lines extract_code_to_files does not skip
Qualifying ==
    {i \in DOMAIN written :
        /\ Truthy(Get(JsonLoads(written[i]), "content"))
        /\ Truthy(Get(JsonLoads(written[i]), "blob_id"))}

ExpectedName(i) == JsonLoads(written[i]).blob_id.v \o <<EXTENSION_MAP[language]>>

C7_NoPartialLineOnDisk == durable.partial = FALSE

\* C8 as stated: once the N-th record has been written no further row is
\* requested from the source.
C8_NoRowRequestedAfterN ==
    [][(Running /\ N >= 1 /\ Len(written) = N /\ saved >= N) => pos' = pos]_vars

\* C8, amended: once the counter has reached N the loop asks the source for at most
\* one more row, which it drops without a resolver call and without writing, and
\* the run ends at the break without error; when the source ends first the run
\* ends normally too.
C8_StopsAtBound ==
    [][/\ (Running /\ saved >= N) =>
              /\ written' = written
              /\ saved' = saved
              /\ files' = files
              /\ pc' \notin {"try", "aborted"}
              /\ pc = "for" => (pos' = pos /\ pc' \in {"for", "exhausted"})
                                  \/ (pos' = pos + 1 /\ pc' = "check")
              /\ pc = "check" => (pos' = pos /\ pc' \in {"check", "done"})
       /\ (pc = "for" /\ pos = Len(source) /\ pc' # pc) => pc' = "exhausted"]_vars

C8_Witness ==
    /\ pc = "done"
    /\ N = 2
    /\ saved = N
    /\ pos = origin[N] + 1

\* C9: the counter starts at 0, never decreases, never exceeds N, grows by one
\* exactly when a line is written, and at the loop head equals the number of lines
\* written.
C9_CounterInvariant ==
    /\ saved = 0
    /\ [](saved \in 0..N /\ (pc = "for" => saved = Len(written)))
    /\ [][/\ saved' \in {saved, saved + 1}
          /\ saved' = saved + 1 <=> Len(written') = Len(written) + 1
          /\ saved' = saved <=> written' = written]_vars

C9_Witness ==
    /\ pc = "for"
    /\ saved = 2
    /\ N = 2
    /\ pos = 3

\* the file written for log line i in the split variant
LineFile(i) == CodePath(Stem(source[origin[i]], i - 1), language)

====
